---- MODULE Spec2Model ----
(***************************************************************************)
(* A model of ping.py: the internet checksum, the ICMP echo codec, the     *)
(* probe procedure ping_once and the interactive monitor main.             *)
(*                                                                         *)
(* Bytes are naturals 0..255 and a bytes object is a sequence of them      *)
(* (Python's index i is the sequence's index i + 1).  A Python call either *)
(* returns a value or raises: Return(v) and Raise(e).  None is the empty   *)
(* tuple and any other optional value v is <<v>>.                          *)
(***************************************************************************)
EXTENDS Integers, Sequences

VARIABLES
    pc,               \* main: "input", "ping", "print", "sleep", "crashed"
    names,            \* main: dict address -> name or None, in insertion order
    status,           \* main: dict address -> latest status
    sequence_number,  \* main: random.randint(0, 0xffff + 1)
    identifier,       \* main: os.getpid() & 0xffff
    i,                \* main: position of the for loops over names
    out,              \* the last text written to standard output
    ppc,              \* ping_once: "idle", "opened", "composed", "sent", "received", "done", "raised"
    args,             \* ping_once: its parameters address, identifier, sequence_number
    sent,             \* ping_once: the composed request
    answer,           \* ping_once: the datagram recvfrom returned
    recv_addr,        \* ping_once: the address recvfrom returned
    receive_delay,    \* ping_once: time.time() - send_time, in ticks
    result,           \* ping_once: the value returned, or the exception raised
    ops,              \* ping_once: the socket operations of the current call, in order
    s,                \* ping_once: the local socket, "none" or "open"
    unreleased,       \* sockets of finished calls that nothing has closed yet
    data,             \* unit level: the bytes a codec function is applied to
    fn,               \* unit level: the function applied last
    ret               \* unit level: what it returned or raised

vars == <<pc, names, status, sequence_number, identifier, i, out, ppc, args, sent,
          answer, recv_addr, receive_delay, result, ops, s, unreleased, data, fn, ret>>

mainVars == <<pc, names, status, sequence_number, identifier, i, out>>
pingVars == <<ppc, args, sent, answer, recv_addr, receive_delay, result, ops, s, unreleased>>
unitVars == <<data, fn, ret>>

(***************************************************************************)
(* Program constants.                                                      *)
(***************************************************************************)
TYPE == 8
CODE == 0
TIMEOUT == 2
RECEIVE_MAX_SIZE == 1024
WAIT_TIME == 2
TIMEOUT_CODE == -1
WRONG_ANSWER_CODE == -2
SOCKET_ERROR_CODE == -3
ICMP_ERROR_CODE == -4
IPPROTO_ICMP == 1

(***************************************************************************)
(* Bounds of the model.                                                    *)
(***************************************************************************)
\* receive_delay is drawn from 0..MaxDelay ticks
MaxDelay == 3
\* the operating system refuses a new socket once this many are unreleased
MaxOpen == 2
\* trailing data bytes the environment appends to an echo payload
MaxExtra == 1
\* longest byte sequence a codec function is applied to on its own
MaxLen == 6

\* ticks of the clock per millisecond: a tick is half a millisecond
TicksPerMs == 2

(***************************************************************************)
(* Python values.                                                          *)
(***************************************************************************)
None == <<>>
Some(v) == <<v>>
Return(v) == [exc |-> "none", val |-> v]
Raise(e) == [exc |-> e, val |-> None]
Raised(r) == r.exc # "none"
\* no value yet
Pending == [exc |-> "pending", val |-> None]

Digit(n) == <<"0", "1", "2", "3", "4", "5", "6", "7", "8", "9">>[n + 1]

RECURSIVE StrNat(_)
StrNat(n) == IF n < 10 THEN Digit(n) ELSE StrNat(n \div 10) \o Digit(n % 10)

\* str(t) of an integer
Str(t) == IF t < 0 THEN "-" \o StrNat(-t) ELSE StrNat(t)

(***************************************************************************)
(* The checksum engine.                                                    *)
(***************************************************************************)
\* the loop of lines 40-47: the sum of the big-endian 16-bit words from word k on
RECURSIVE WordSum(_, _)
WordSum(bytes, k) ==
    IF k > Len(bytes) THEN 0
    ELSE (bytes[k] * 256 + bytes[k + 1]) + WordSum(bytes, k + 2)

\* the loop of lines 59-60
RECURSIVE Fold(_)
Fold(ocs) == IF ocs \div 65536 # 0 THEN Fold((ocs % 65536) + (ocs \div 65536)) ELSE ocs

ones_complement_sum(bytes) ==
    IF Len(bytes) % 2 # 0 THEN Raise("Exception")
    ELSE Return(Fold(WordSum(bytes, 1)))

\* (~ocs) & 0xffff, ~ocs being -ocs - 1
Complement16(ocs) == (-ocs - 1) % 65536

\* checksum without the mask of line 90
checksum_unmasked(bytes) ==
    IF Len(bytes) % 2 # 0 THEN Raise("Exception")
    ELSE Return(-ones_complement_sum(bytes).val - 1)

checksum(bytes) ==
    IF Len(bytes) % 2 # 0 THEN Raise("Exception")
    ELSE Return(Complement16(ones_complement_sum(bytes).val))

(***************************************************************************)
(* The echo codec.                                                         *)
(***************************************************************************)
\* struct.pack("!BBHHH", ...): big-endian, struct.error on a field out of range
pack(t, c, cs, ident, seq) ==
    IF /\ t \in 0..255 /\ c \in 0..255
       /\ cs \in 0..65535 /\ ident \in 0..65535 /\ seq \in 0..65535
    THEN Return(<<t, c, cs \div 256, cs % 256, ident \div 256, ident % 256,
                  seq \div 256, seq % 256>>)
    ELSE Raise("struct.error")

\* struct.unpack("!BBHHH", data): struct.error unless data has 8 bytes
unpack(bytes) ==
    IF Len(bytes) # 8 THEN Raise("struct.error")
    ELSE Return(<<bytes[1], bytes[2], bytes[3] * 256 + bytes[4],
                  bytes[5] * 256 + bytes[6], bytes[7] * 256 + bytes[8]>>)

compose_echo_message(ident, seq) ==
    LET temp_message == pack(TYPE, CODE, 0, ident, seq) IN
    IF Raised(temp_message) THEN temp_message
    ELSE LET cs == checksum(temp_message.val).val
             message == pack(TYPE, CODE, cs, ident, seq)
         IN  IF Raised(message) THEN message
             ELSE IF ones_complement_sum(message.val).val = 65535 THEN message
                  ELSE Raise("ValueError")

\* read_icmp_message with the two fields of line 139 in the other order
read_icmp_message_swapped(bytes) ==
    LET sum == ones_complement_sum(bytes) IN
    IF Raised(sum) THEN sum
    ELSE IF sum.val = 65535
         THEN LET u == unpack(bytes) IN
              IF Raised(u) THEN Raise("ValueError")
              ELSE IF u.val[1] = 0 /\ u.val[2] = 0
                   THEN Return(<<Some(u.val[5]), Some(u.val[4])>>)
                   ELSE Return(<<None, None>>)
         ELSE Return(<<None, None>>)

read_icmp_message(bytes) ==
    LET sum == ones_complement_sum(bytes) IN
    IF Raised(sum) THEN sum
    ELSE IF sum.val = 65535
         THEN LET u == unpack(bytes) IN
              IF Raised(u) THEN Raise("ValueError")
              ELSE IF u.val[1] = 0 /\ u.val[2] = 0
                   THEN Return(<<Some(u.val[4]), Some(u.val[5])>>)
                   ELSE Return(<<None, None>>)
         ELSE Return(<<None, None>>)

(***************************************************************************)
(* Display.                                                                *)
(***************************************************************************)
\* what print(text) writes
print(text) == text \o "\n"

perror(arg) == print("[ERROR]\t" \o arg \o "\n")

pinfo(arg) == print("[INFO]\t" \o arg \o "\n")

get_desc(t) ==
    IF t = TIMEOUT_CODE THEN "timed out."
    ELSE IF t = WRONG_ANSWER_CODE THEN "errors in received echo reply."
    ELSE IF t = SOCKET_ERROR_CODE THEN "error while creating the socket."
    ELSE IF t = ICMP_ERROR_CODE THEN "error while generating icmp echo request."
    ELSE "unknown status."

\* the text pstatus prints; name is None or Some(hostname)
pstatus(address, t, name) ==
    print("\t" \o address
          \o (IF name # None THEN " (" \o name[1] \o ")" ELSE "")
          \o (IF t >= 0
              THEN " is reachable, ping: " \o (IF t > 1 THEN Str(t) ELSE "<1") \o " ms"
              ELSE " is not reachable: " \o get_desc(t)))

\* the text pheader prints, without the fifty blank lines and the time of day
pheader == print("Requesting each host for echo every " \o Str(WAIT_TIME)
                 \o " seconds.\nPress Ctrl+C to exit.\n\n\t[LATEST REFRESH] ")

(***************************************************************************)
(* The environment of a probe: addresses, and the datagrams a raw ICMP     *)
(* socket can hand to recvfrom.                                            *)
(***************************************************************************)
Addresses == {"10.0.0.1", "10.0.0.2"}

\* an IP header of (first % 16) * 4 bytes, at least 20; only the bytes
\* ping_once reads (offsets 0 and 9) are set
Header(first, proto) ==
    LET n == IF (first % 16) * 4 > 20 THEN (first % 16) * 4 ELSE 20
    IN  [k \in 1..n |-> IF k = 1 THEN first ELSE IF k = 10 THEN proto ELSE 0]

\* version 4 with IHL 5, version 4 with IHL 6, version 6 with IHL 5
FirstBytes == {69, 70, 101}
\* ICMP and UDP
Protocols == {IPPROTO_ICMP, 17}

Zeros(n) == [k \in 1..n |-> 0]

\* bytes with the 16-bit field at offset 2 set to cs
WithChecksum(bytes, cs) ==
    [k \in 1..Len(bytes) |-> IF k = 3 THEN cs \div 256
                             ELSE IF k = 4 THEN cs % 256 ELSE bytes[k]]

\* the checksum value that makes the ones' complement sum of even-length bytes 0xffff
GoodChecksum(bytes) == 65535 - Fold(WordSum(WithChecksum(bytes, 0), 1))

\* an ICMP message of n bytes: type t, code c, identifier, sequence, zero data;
\* good says whether its checksum field is the right one
Payload(t, c, ident, seq, n, good) ==
    LET full == <<t, c, 0, 0, ident \div 256, ident % 256, seq \div 256, seq % 256>>
                \o Zeros(MaxExtra)
        cut == SubSeq(full, 1, n)
    IN  IF n >= 4 /\ n % 2 = 0
        THEN WithChecksum(cut, (GoodChecksum(cut) + (IF good THEN 0 ELSE 1)) % 65536)
        ELSE cut

Payloads(a) ==
    { Payload(t, c, ident, seq, n, good) :
        t \in {0, TYPE}, c \in {0, 1},
        ident \in {a.identifier, (a.identifier + 1) % 65536},
        seq \in {a.sequence_number, (a.sequence_number + 1) % 65536},
        n \in 0..(8 + MaxExtra), good \in BOOLEAN }
    \cup { <<255, 255>>, <<0, 0, 255, 255, 0, 0>> }

\* every datagram of the model: a header and a payload, or the first bytes of a header
Datagrams(a) ==
    { Header(first, proto) \o p :
        first \in FirstBytes, proto \in Protocols, p \in Payloads(a) }
    \cup { SubSeq(Header(69, IPPROTO_ICMP), 1, n) : n \in {0, 1, 9} }

\* the datagrams of a monitoring session: the echo reply, a reply to another
\* sequence number, and a reply that carries one byte of data
SessionDatagrams(a) ==
    { Header(69, IPPROTO_ICMP) \o Payload(0, 0, a.identifier, seq, n, TRUE) :
        seq \in {a.sequence_number, (a.sequence_number + 1) % 65536}, n \in {8} }
    \cup { Header(69, IPPROTO_ICMP) \o Payload(0, 0, a.identifier, a.sequence_number, 9, TRUE) }

(***************************************************************************)
(* ping_once.                                                              *)
(***************************************************************************)
\* int(receive_delay * 1000), receive_delay being in ticks
LatencyMs(delay) == delay \div TicksPerMs

\* lines 256-274: the status returned for a received datagram, or the
\* exception that leaves ping_once
Validate(ans, raddr, delay, a) ==
    IF Len(ans) < 10 THEN Raise("IndexError")
    ELSE LET ip_version == ans[1] \div 16
             protocol == ans[10]
         IN  IF raddr = a.address /\ ip_version = 4 /\ protocol = IPPROTO_ICMP
             THEN LET header_length == (ans[1] % 16) * 4
                      message == SubSeq(ans, header_length + 1, Len(ans))
                      r == read_icmp_message(message)
                  IN  IF r.exc = "ValueError" THEN Return(WRONG_ANSWER_CODE)
                      ELSE IF Raised(r) THEN r
                      ELSE IF /\ r.val[1] = Some(a.identifier)
                              /\ r.val[2] = Some(a.sequence_number)
                           THEN Return(LatencyMs(delay))
                           ELSE Return(WRONG_ANSWER_CODE)
             ELSE Return(WRONG_ANSWER_CODE)

\* ping_once ends: its frame goes, and with it the only reference to the
\* socket; no statement of ping_once closes it
Leave(r) ==
    /\ result' = r
    /\ ppc' = IF Raised(r) THEN "raised" ELSE "done"
    /\ s' = "none"
    /\ unreleased' = IF s = "open" THEN unreleased + 1 ELSE unreleased

\* lines 216-233, entered with the arguments a
PingOpen(a) ==
    /\ args' = a
    /\ sent' = None /\ answer' = None /\ recv_addr' = None /\ receive_delay' = 0
    /\ ops' = <<>>
    /\ \/ /\ unreleased < MaxOpen
          /\ s' = "open" /\ ppc' = "opened" /\ result' = Pending
          /\ UNCHANGED unreleased
       \/ /\ s' = "none" /\ ppc' = "done" /\ result' = Return(SOCKET_ERROR_CODE)
          /\ UNCHANGED unreleased

\* lines 234-237
PingCompose ==
    /\ ppc = "opened"
    /\ LET c == compose_echo_message(args.identifier, args.sequence_number) IN
       IF c.exc = "ValueError"
       THEN Leave(Return(ICMP_ERROR_CODE)) /\ UNCHANGED sent
       ELSE IF Raised(c)
            THEN Leave(c) /\ UNCHANGED sent
            ELSE /\ sent' = c.val /\ ppc' = "composed"
                 /\ UNCHANGED <<result, s, unreleased>>
    /\ UNCHANGED <<args, answer, recv_addr, receive_delay, ops>>
    /\ UNCHANGED mainVars /\ UNCHANGED unitVars

\* lines 247-248, and the handlers of lines 275-278
PingSend ==
    /\ ppc = "composed"
    /\ ops' = Append(ops, "sendto")
    /\ \/ ppc' = "sent" /\ UNCHANGED <<result, s, unreleased>>
       \/ Leave(Return(TIMEOUT_CODE))
       \/ Leave(Return(SOCKET_ERROR_CODE))
    /\ UNCHANGED <<args, sent, answer, recv_addr, receive_delay>>
    /\ UNCHANGED mainVars /\ UNCHANGED unitVars

\* lines 249-255, and the handlers of lines 275-278; D is the set of datagrams
\* that may arrive
PingRecv(D) ==
    /\ ppc = "sent"
    /\ ops' = Append(ops, "recvfrom")
    /\ \/ \E d \in D, from \in Addresses, delay \in 0..MaxDelay :
            /\ Len(d) <= RECEIVE_MAX_SIZE
            /\ delay <= TIMEOUT * 1000 * TicksPerMs
            /\ answer' = Some(d) /\ recv_addr' = Some(from) /\ receive_delay' = delay
            /\ ppc' = "received"
            /\ UNCHANGED <<result, s, unreleased>>
       \/ Leave(Return(TIMEOUT_CODE)) /\ UNCHANGED <<answer, recv_addr, receive_delay>>
       \/ Leave(Return(SOCKET_ERROR_CODE)) /\ UNCHANGED <<answer, recv_addr, receive_delay>>
    /\ UNCHANGED <<args, sent>>
    /\ UNCHANGED mainVars /\ UNCHANGED unitVars

\* lines 256-274
PingValidate ==
    /\ ppc = "received"
    /\ Leave(Validate(answer[1], recv_addr[1], receive_delay, args))
    /\ UNCHANGED <<args, sent, answer, recv_addr, receive_delay, ops>>
    /\ UNCHANGED mainVars /\ UNCHANGED unitVars

\* the runtime finalises a socket object nothing refers to any more, which
\* closes it; when it does so is up to the interpreter
CollectSocket ==
    /\ unreleased > 0
    /\ unreleased' = unreleased - 1
    /\ UNCHANGED <<ppc, args, sent, answer, recv_addr, receive_delay, result, ops, s>>
    /\ UNCHANGED mainVars /\ UNCHANGED unitVars

(***************************************************************************)
(* main.                                                                   *)
(***************************************************************************)
\* a dict is a sequence of entries [key, value] in insertion order
DictHas(d, k) == \E n \in 1..Len(d) : d[n].key = k

DictGet(d, k) == d[CHOOSE n \in 1..Len(d) : d[n].key = k].value

\* d[k] = v: the entry of an existing key is replaced where it stands
DictSet(d, k, v) ==
    IF DictHas(d, k)
    THEN [n \in 1..Len(d) |-> IF d[n].key = k THEN [key |-> k, value |-> v] ELSE d[n]]
    ELSE Append(d, [key |-> k, value |-> v])

\* random.randint(a, b): any integer from a to b, both included
randint(a, b) == a..b

\* the outcomes of random.randint the model draws from
RandintSamples == {0, 65535, 65536}

\* the process ids the model draws from
PidSamples == {1234, 131071}

\* the lines the user may type, besides the empty line
Hosts == {"a.example", "b.example", "10.0.0.1", "10.0.0.2", "nohost.invalid"}

\* socket.gethostbyname: two hostnames of 10.0.0.1, literal addresses
\* resolve to themselves, one name that does not resolve
gethostbyname(host) ==
    IF host \in {"a.example", "b.example"} THEN Return("10.0.0.1")
    ELSE IF host \in Addresses THEN Return(host)
    ELSE Raise("socket.gaierror")

PingIdle ==
    /\ ppc = "idle" /\ args = None /\ sent = None /\ answer = None /\ recv_addr = None
    /\ receive_delay = 0 /\ result = Pending /\ ops = <<>> /\ s = "none"
    /\ unreleased = 0

\* lines 286-293
Init ==
    /\ sequence_number \in randint(0, 65535 + 1) \cap RandintSamples
    /\ identifier \in {pid % 65536 : pid \in PidSamples}
    /\ names = <<>>
    /\ status = <<>>
    /\ pc = "input" /\ i = 0
    /\ out = print("Insert addresses separated by newlines or an empty line to ping: \n")
    /\ PingIdle
    /\ data = [kind |-> "none"] /\ fn = "none" /\ ret = Pending

\* lines 295-308: a line that is not empty
InputLine(host) ==
    /\ pc = "input"
    /\ host # ""
    /\ LET r == gethostbyname(host) IN
       IF Raised(r)
       THEN /\ out' = perror("Address " \o host \o
                " is not a valid IPv4 address and DNS search returned nothing: address not added")
            /\ UNCHANGED names
       ELSE IF r.val # host
            THEN /\ names' = DictSet(names, r.val, Some(host))
                 /\ out' = pinfo("Hostname " \o host \o " resolved to " \o r.val
                                 \o " and correctly added.")
            ELSE /\ names' = DictSet(names, r.val, None)
                 /\ out' = pinfo("Address correctly added.")
    /\ UNCHANGED <<pc, status, sequence_number, identifier, i>>
    /\ UNCHANGED pingVars /\ UNCHANGED unitVars

\* lines 295-296 and 309-314: the empty line
InputEmpty ==
    /\ pc = "input"
    /\ IF Len(names) # 0
       THEN out' = pinfo("Address(es) accepted.") /\ pc' = "ping" /\ i' = 1
       ELSE out' = perror("No address has been added yet.") /\ UNCHANGED <<pc, i>>
    /\ UNCHANGED <<names, status, sequence_number, identifier>>
    /\ UNCHANGED pingVars /\ UNCHANGED unitVars

\* line 318: the call of ping_once for the next address
CallPing ==
    /\ pc = "ping" /\ i <= Len(names) /\ ppc = "idle"
    /\ PingOpen([address |-> names[i].key, identifier |-> identifier,
                 sequence_number |-> sequence_number])
    /\ UNCHANGED mainVars /\ UNCHANGED unitVars

\* recvfrom inside a monitoring round
SessionRecv == PingRecv(SessionDatagrams(args))

\* line 318 with the status stored in names as well
StoreStatus_IntoNames ==
    /\ pc = "ping" /\ ppc = "done"
    /\ status' = DictSet(status, names[i].key, result.val)
    /\ names' = DictSet(names, names[i].key, Some(Str(result.val)))
    /\ i' = i + 1
    /\ ppc' = "idle"
    /\ UNCHANGED <<pc, sequence_number, identifier, out>>
    /\ UNCHANGED <<args, sent, answer, recv_addr, receive_delay, result, ops, s, unreleased>>
    /\ UNCHANGED unitVars

\* line 318: the assignment of the returned status
StoreStatus ==
    /\ pc = "ping" /\ ppc = "done"
    /\ status' = DictSet(status, names[i].key, result.val)
    /\ i' = i + 1
    /\ ppc' = "idle"
    /\ UNCHANGED <<pc, names, sequence_number, identifier, out>>
    /\ UNCHANGED <<args, sent, answer, recv_addr, receive_delay, result, ops, s, unreleased>>
    /\ UNCHANGED unitVars

\* line 318: an exception that leaves ping_once leaves main too
Crash ==
    /\ pc = "ping" /\ ppc = "raised"
    /\ pc' = "crashed"
    /\ UNCHANGED <<names, status, sequence_number, identifier, i, out>>
    /\ UNCHANGED pingVars /\ UNCHANGED unitVars

\* line 319
Pheader ==
    /\ pc = "ping" /\ i > Len(names) /\ ppc = "idle"
    /\ out' = pheader
    /\ pc' = "print" /\ i' = 1
    /\ UNCHANGED <<names, status, sequence_number, identifier>>
    /\ UNCHANGED pingVars /\ UNCHANGED unitVars

\* lines 320-321: one turn of the loop
PrintStatus ==
    /\ pc = "print" /\ i <= Len(names)
    /\ out' = pstatus(names[i].key, DictGet(status, names[i].key), names[i].value)
    /\ i' = i + 1
    /\ UNCHANGED <<pc, names, status, sequence_number, identifier>>
    /\ UNCHANGED pingVars /\ UNCHANGED unitVars

\* line 322, and back to line 316
Sleep ==
    /\ pc = "print" /\ i > Len(names)
    /\ pc' = "ping" /\ i' = 1
    /\ UNCHANGED <<names, status, sequence_number, identifier, out>>
    /\ UNCHANGED pingVars /\ UNCHANGED unitVars

Next ==
    \/ \E host \in Hosts : InputLine(host)
    \/ InputEmpty
    \/ CallPing
    \/ PingCompose
    \/ PingSend
    \/ SessionRecv
    \/ PingValidate
    \/ StoreStatus
    \/ Crash
    \/ Pheader
    \/ PrintStatus
    \/ Sleep
    \/ CollectSocket

Spec == Init /\ [][Next]_vars

(***************************************************************************)
(* The functions called on their own: the initial state draws the input,   *)
(* and the actions apply a function to it.                                 *)
(***************************************************************************)
ByteSamples == {0, TYPE, 255}
IdentifierSamples == {1234, 65535}
SequenceSamples == {0, 65535}

ByteInputs == UNION { [1..n -> ByteSamples] : n \in 0..MaxLen }

UnitInputs ==
    { [kind |-> "bytes", bytes |-> b] : b \in ByteInputs }
    \cup { [kind |-> "fields", identifier |-> ident, sequence_number |-> seq] :
             ident \in IdentifierSamples, seq \in SequenceSamples }
    \cup { [kind |-> "probe",
            args |-> [address |-> "10.0.0.1", identifier |-> ident, sequence_number |-> seq]] :
             ident \in IdentifierSamples, seq \in SequenceSamples }

UnitInit ==
    /\ data \in UnitInputs
    /\ fn = "none" /\ ret = Pending
    /\ sequence_number = 0 /\ identifier = 0
    /\ names = <<>> /\ status = <<>>
    /\ pc = "imported" /\ i = 0 /\ out = ""
    /\ PingIdle

ApplyOnesComplementSum ==
    /\ data.kind = "bytes"
    /\ fn' = "ones_complement_sum"
    /\ ret' = ones_complement_sum(data.bytes)
    /\ UNCHANGED data /\ UNCHANGED mainVars /\ UNCHANGED pingVars

ApplyChecksum ==
    /\ data.kind = "bytes"
    /\ fn' = "checksum"
    /\ ret' = checksum(data.bytes)
    /\ UNCHANGED data /\ UNCHANGED mainVars /\ UNCHANGED pingVars

ApplyReadIcmpMessage ==
    /\ data.kind = "bytes"
    /\ fn' = "read_icmp_message"
    /\ ret' = read_icmp_message(data.bytes)
    /\ UNCHANGED data /\ UNCHANGED mainVars /\ UNCHANGED pingVars

ApplyComposeEchoMessage ==
    /\ data.kind = "fields"
    /\ fn' = "compose_echo_message"
    /\ ret' = compose_echo_message(data.identifier, data.sequence_number)
    /\ UNCHANGED data /\ UNCHANGED mainVars /\ UNCHANGED pingVars

\* ping_once called with the arguments drawn, any number of times
CallProbe ==
    /\ data.kind = "probe"
    /\ ppc \in {"idle", "done", "raised"}
    /\ PingOpen(data.args)
    /\ UNCHANGED mainVars /\ UNCHANGED unitVars

\* recvfrom of a probe called on its own
ProbeRecv == PingRecv(Datagrams(args))

UnitNext ==
    \/ ApplyOnesComplementSum
    \/ ApplyChecksum
    \/ ApplyReadIcmpMessage
    \/ ApplyComposeEchoMessage
    \/ CallProbe
    \/ PingCompose
    \/ PingSend
    \/ ProbeRecv
    \/ PingValidate
    \/ CollectSocket

SpecUnit == UnitInit /\ [][UnitNext]_vars

(***************************************************************************)
(* Properties.                                                             *)
(***************************************************************************)
\* a call of ping_once has ended after recvfrom returned a datagram
Received == answer # None /\ ppc \in {"done", "raised"}

\* the bytes after the IP header, as the claims describe them
Stripped(d) == SubSeq(d, (d[1] % 16) * 4 + 1, Len(d))

\* the ones' complement sum of p is 0xffff: an even number of bytes whose
\* 16-bit words add up to a positive multiple of 0xffff
SumsToAllOnes(p) ==
    /\ Len(p) % 2 = 0
    /\ WordSum(p, 1) > 0
    /\ WordSum(p, 1) % 65535 = 0

\* the conditions C1 lists for the datagram d received from the address from
ValidReply(d, from) ==
    /\ Len(d) >= 10
    /\ from = args.address
    /\ d[1] \div 16 = 4
    /\ d[10] = 1
    /\ LET p == Stripped(d) IN
       /\ SumsToAllOnes(p)
       /\ Len(p) >= 8
       /\ p[1] = 0 /\ p[2] = 0
       /\ p[5] * 256 + p[6] = args.identifier
       /\ p[7] * 256 + p[8] = args.sequence_number

ResultValues == {TIMEOUT_CODE, WRONG_ANSWER_CODE, SOCKET_ERROR_CODE, ICMP_ERROR_CODE}

\* C1: ping_once returns a latency >= 0 only for a datagram from the pinged
\* address with IP version 4, protocol ICMP, a payload whose ones' complement
\* sum is 0xffff, type 0, code 0 and the request's identifier and sequence;
\* for every received datagram that fails one of these it returns
\* WRONG_ANSWER_CODE.
C1_SuccessOnlyForValidReplyElseWrongAnswer ==
    Received =>
        /\ (result.exc = "none" /\ result.val >= 0) => ValidReply(answer[1], recv_addr[1])
        /\ ~ValidReply(answer[1], recv_addr[1]) => result = Return(WRONG_ANSWER_CODE)

\* C2: whatever the transport does and delivers, ping_once returns a latency
\* >= 0 or one of the four codes, and no exception leaves it; a datagram
\* shorter than an IP header or with a payload of another length than 8 gives
\* WRONG_ANSWER_CODE.
C2_AlwaysReturnsAResultValue ==
    /\ ppc # "raised"
    /\ ppc = "done" => (result.exc = "none" /\ (result.val >= 0 \/ result.val \in ResultValues))
    /\ (Received /\ (Len(answer[1]) < 10 \/ Len(Stripped(answer[1])) # 8))
         => result = Return(WRONG_ANSWER_CODE)

\* C3: the socket a call of ping_once opened is closed when the call
\* returns; no socket of a finished probe is still open.
C3_SocketReleasedOnReturn ==
    ppc \in {"idle", "done"} => (s = "none" /\ unreleased = 0)

\* C4: read_icmp_message raises for every input whose length is not 8, and
\* ones_complement_sum and checksum raise for every input of odd length.
C4_WrongLengthRaises ==
    /\ (fn = "read_icmp_message" /\ Len(data.bytes) # 8) => Raised(ret)
    /\ (fn \in {"ones_complement_sum", "checksum"} /\ Len(data.bytes) % 2 = 1) => Raised(ret)

\* m with its type byte (offset 0) set to 0
ForceType0(m) == [k \in 1..Len(m) |-> IF k = 1 THEN 0 ELSE m[k]]

\* m as the echo reply to it: type 0, and the checksum of the changed bytes
AsReply(m) == WithChecksum(ForceType0(m), checksum(WithChecksum(ForceType0(m), 0)).val)

Composed == fn = "compose_echo_message"

\* C5 as stated: the composed message with its type byte forced to 0 and every
\* other byte unchanged is read back as (identifier, sequence).
C5_TypeForcedReadsBack ==
    Composed =>
        /\ ~Raised(ret)
        /\ read_icmp_message(ForceType0(ret.val))
             = Return(<<Some(data.identifier), Some(data.sequence_number)>>)

\* C5 amended: the composed message with its type byte forced to 0 and its
\* checksum field recomputed over the changed bytes is read back as
\* (identifier, sequence); with the checksum left unchanged it reads as
\* (None, None).
C5_ReplyReadsBack ==
    Composed =>
        /\ ~Raised(ret)
        /\ read_icmp_message(AsReply(ret.val))
             = Return(<<Some(data.identifier), Some(data.sequence_number)>>)
        /\ read_icmp_message(ForceType0(ret.val)) = Return(<<None, None>>)

C5_Witness ==
    /\ Composed /\ ~Raised(ret)
    /\ data.identifier = 1234 /\ data.sequence_number = 65535

\* C6: for even-length bytes with a zero checksum field, writing checksum(m)
\* into the field gives ones' complement sum 0xffff; compose_echo_message
\* returns 08 00 <checksum> <identifier> <sequence> with sum 0xffff, and
\* ping_once never returns ICMP_ERROR_CODE.
C6_ChecksumMakesSumAllOnes ==
    /\ (/\ fn = "checksum" /\ Len(data.bytes) % 2 = 0 /\ Len(data.bytes) >= 4
        /\ data.bytes[3] = 0 /\ data.bytes[4] = 0)
       => /\ ~Raised(ret)
          /\ ret.val \in 0..65535
          /\ ones_complement_sum(WithChecksum(data.bytes, ret.val)) = Return(65535)
    /\ Composed
       => /\ ~Raised(ret)
          /\ Len(ret.val) = 8
          /\ ret.val[1] = 8 /\ ret.val[2] = 0
          /\ ret.val[5] * 256 + ret.val[6] = data.identifier
          /\ ret.val[7] * 256 + ret.val[8] = data.sequence_number
          /\ \A k \in 1..8 : ret.val[k] \in 0..255
          /\ SumsToAllOnes(ret.val)
    /\ ppc = "opened" => ~Raised(compose_echo_message(args.identifier, args.sequence_number))
    /\ ppc = "done" => result # Return(ICMP_ERROR_CODE)

\* a checksum taken over words whose sum carries past 16 bits
C6_Witness ==
    /\ fn = "checksum" /\ ~Raised(ret)
    /\ data.bytes = <<255, 255, 0, 0, 255, 8>>
    /\ ret.val = 247

\* the line C7 expects for the entry e of names with status t
ExpectedLine(e, t) ==
    "\t" \o e.key
    \o (IF e.value # None THEN " (" \o e.value[1] \o ")" ELSE "")
    \o (IF t >= 0
        THEN " is reachable, ping: " \o (IF t = 0 THEN "<1" ELSE Str(t)) \o " ms"
        ELSE " is not reachable: " \o get_desc(t))
    \o "\n"

\* C7: for a status t >= 0 pstatus shows the host as reachable, with "<1"
\* only for t = 0 and the integer t for t >= 1; for t < 0 it shows the host
\* as not reachable with the reason.
C7_PstatusShowsLatency ==
    (pc = "print" /\ i > 1) =>
        out = ExpectedLine(names[i - 1], DictGet(status, names[i - 1].key))

\* C8 as stated: an entry of names, once recorded, is never changed.
C8_NamesEntryNeverChanges ==
    [][\A a \in Addresses :
         DictHas(names, a) => /\ DictHas(names', a)
                              /\ DictGet(names', a) = DictGet(names, a)]_vars

\* C8 amended: an entry of names, once recorded, stays; its value changes
\* only in the input phase, by a line that resolves to the same address, to
\* that line's hostname (None for a literal address); no monitoring round
\* changes names.
C8_NamesEntryChangesOnlyByInputLine ==
    [][/\ pc # "input" => names' = names
       /\ \A a \in Addresses :
            DictHas(names, a) =>
              /\ DictHas(names', a)
              /\ DictGet(names', a) # DictGet(names, a) =>
                   /\ pc = "input"
                   /\ \E host \in Hosts :
                        /\ gethostbyname(host) = Return(a)
                        /\ DictGet(names', a) = IF host = a THEN None ELSE Some(host)]_vars

\* a round has been printed for two hosts, the first of them named by a line
\* that came after another line for the same address
C8_Witness ==
    /\ pc = "print" /\ i = 3
    /\ names = << [key |-> "10.0.0.1", value |-> Some("b.example")],
                  [key |-> "10.0.0.2", value |-> None] >>

\* C9: one call does at most one sendto and then at most one recvfrom; the
\* first datagram received ends the call with a latency or WRONG_ANSWER_CODE;
\* TIMEOUT_CODE is returned only when no datagram arrived.
C9_OneSendOneReceiveNoRetry ==
    /\ ops \in {<<>>, <<"sendto">>, <<"sendto", "recvfrom">>}
    /\ Received =>
         /\ ppc = "done"
         /\ result.val >= 0 \/ result.val = WRONG_ANSWER_CODE
    /\ (ppc = "done" /\ result = Return(TIMEOUT_CODE)) => answer = None

\* C10: the identifier and the sequence number main passes to ping_once are
\* within [0, 0xffff], so that composing the request never fails on a field
\* out of range.
C10_ArgumentsAreUint16 ==
    /\ args # None => /\ args.identifier \in 0..65535
                      /\ args.sequence_number \in 0..65535
    /\ ~(ppc = "raised" /\ result.exc = "struct.error")

====
